---- MODULE Spec2Model ----
(***************************************************************************)
(* The line-transport bridge of sqlite3-editor: the worker loop            *)
(* `while True: print(server.handle(input()))`, Server.handle, and the     *)
(* two sqlite3 handles (read-only, read-write) it dispatches to.           *)
(*                                                                         *)
(* The database is one table t(x UNIQUE, y).  The engine (python's sqlite3 *)
(* module over SQLite) is modelled at the level the handler observes:      *)
(* prepare, implicit BEGIN before DML, bind, step, commit/rollback, the    *)
(* read-only open flag, and the file lock / WAL snapshot a handle holds    *)
(* while it is inside a transaction.                                       *)
(***************************************************************************)
EXTENDS Integers, Sequences, FiniteSets

\* Number of command lines the front end sends before it closes the stream.
MaxCmds == 4

VARIABLES
    variant,    \* which server.py runs: "vscode", "backend", "stdio"
    journal,    \* journal mode of the database file: "delete" or "wal"
    respOK,     \* whether the response file path can be opened for writing
    db,         \* committed contents of the database file
    roTx,       \* read-only handle: "none", "deferred" (BEGIN, no lock), "read"
    roSnap,     \* what the read-only handle sees while roTx = "read"
    rwTx,       \* read-write handle inside a transaction
    rwWork,     \* uncommitted contents of the read-write handle's transaction
    files,      \* the files under cwd that /import and /export touch
    respFile,   \* contents of the response body file
    pc,         \* "input", "handle", "print", "crashed", "terminated"
    line,       \* the line input() returned
    nIn,        \* command lines read so far
    nOut,       \* status lines printed so far
    outFor,     \* index of the command the last printed status line answers
    last,       \* what the last call of handle did
    onlyWrites, \* every command so far was a write-mode /query answered 200
    written,    \* the rows those write-mode queries inserted, in order
    closeLog,   \* operations on the handles after the loop ended
    exported,   \* per path, the bytes of the last /export answered 200
    mArgs,      \* the arguments the engine passes to find_widget_regexp
    mResult,    \* what that call of find_widget_regexp did
    hreq,       \* HTTP transport: per client, its request and where it stands
    hPosts      \* HTTP transport: requests sent so far

vars == <<variant, journal, respOK, db, roTx, roSnap, rwTx, rwWork, files,
          respFile, pc, line, nIn, nOut, outFor, last, onlyWrites, written,
          closeLog, exported, mArgs, mResult, hreq, hPosts>>

\* The variables of the matcher call and of the HTTP transport.
otherVars == <<mArgs, mResult, hreq, hPosts>>

----------------------------------------------------------------------------
\* Statements, parameters, request bodies

SelectAll == "SELECT * FROM t ORDER BY rowid"
CreateTable == "CREATE TABLE t(x UNIQUE, y)"
InsertOne == "INSERT INTO t(x, y) VALUES (?, ?)"
InsertTwo == "INSERT OR FAIL INTO t(x, y) VALUES (?, ?), (?, ?)"
Rollback == "ROLLBACK"
BadSyntax == "SELEC"
SelectDup == "SELECT x AS a, y AS a FROM t ORDER BY rowid"
SelectParam == "SELECT ? AS v"

\* A python int outside TLC's own range: sign and magnitude, the magnitude as
\* four 16-bit limbs, most significant first.
LimbBase == 65536
PyInt(neg, limbs) == [t |-> "int", neg |-> neg, limbs |-> limbs]
PyFloat(whole) == [t |-> "float", whole |-> whole]

MaxInt64 == PyInt(FALSE, <<32767, 65535, 65535, 65535>>)
MinInt64 == PyInt(TRUE, <<32768, 0, 0, 0>>)
TwoTo63 == PyInt(FALSE, <<32768, 0, 0, 0>>)
MaxUint64 == PyInt(FALSE, <<65535, 65535, 65535, 65535>>)
MinusOne == PyInt(TRUE, <<0, 0, 0, 1>>)
Ten == PyInt(FALSE, <<0, 0, 0, 10>>)

\* The values the front end binds to SELECT ? AS v.
ParamValues == {MaxInt64, MinInt64, TwoTo63, MaxUint64, MinusOne, Ten, PyFloat(10)}

\* The (query, params) pairs the front end sends.
QueryInputs ==
    { <<SelectAll, <<>>>>, <<CreateTable, <<>>>>, <<Rollback, <<>>>>,
      <<BadSyntax, <<>>>>, <<InsertOne, <<10>>>>,
      <<InsertOne, <<10, 20>>>>, <<InsertOne, <<30, 40>>>>,
      <<InsertTwo, <<10, 20, 30, 40>>>>, <<InsertTwo, <<30, 40, 10, 20>>>>,
      <<SelectDup, <<>>>> }
        \cup { <<SelectParam, <<v>>>> : v \in ParamValues }

Modes == {"w+", "r", "rw"}

Blobs == { <<0, 255>>, <<7>> }
Filepaths == {"out.bin", "nodir/out.bin"}

QueryBodies ==
    { [query |-> qp[1], params |-> qp[2], mode |-> m] :
        qp \in QueryInputs, m \in Modes }
ImportBodies == [filepath : Filepaths]
ExportBodies == [filepath : Filepaths, data : Blobs]

\* What the request body file can hold when handle opens it.
Missing == [file |-> "missing"]
Garbage == [file |-> "garbage"]
Decoded(body) == [file |-> "msgpack", body |-> body]

Lines == {"/query", "/import", "/export", "/bogus", " /query "}

\* The request files the front end leaves behind a command line: the bodies
\* of that command, one body of another command, no file, an undecodable one.
SelectBody == [query |-> SelectAll, params |-> <<>>, mode |-> "r"]
CreateBody == [query |-> CreateTable, params |-> <<>>, mode |-> "w+"]
ImportBody == [filepath |-> "out.bin"]
RequestsFor(l) ==
    {Missing, Garbage} \cup
    CASE l = "/query" -> {Decoded(b) : b \in QueryBodies \cup {ImportBody}}
      [] l = "/import" -> {Decoded(b) : b \in ImportBodies \cup {SelectBody}}
      [] l = "/export" ->
            {Decoded(b) : b \in ExportBodies \cup ImportBodies \cup {SelectBody}}
      [] OTHER -> {Decoded(b) : b \in {SelectBody, CreateBody}}

----------------------------------------------------------------------------
\* Database contents

NoTable == [exists |-> FALSE, rows |-> <<>>]
EmptyTable == [exists |-> TRUE, rows |-> <<>>]
Columns == <<"x", "y">>

XsOf(rows) == {rows[i][1] : i \in 1..Len(rows)}

----------------------------------------------------------------------------
\* The engine as sqlite3.Connection.execute drives it.  An engine state e is
\* [db, roTx, roSnap, rwTx, rwWork, journal]; execute returns the new engine
\* state with either a cursor (description, rows) or the raised message.

ReadonlyMsg == "attempt to write a readonly database"
LockedMsg == "database is locked"
BindMsg == "Incorrect number of bindings supplied."
UniqueMsg == "UNIQUE constraint failed: t.x"
NoTxMsg == "cannot rollback - no transaction is active"
NoneNotIterableMsg == "'NoneType' object is not iterable"

\* sqlite3_prepare against the schema the handle sees: "ok" or the message.
Prepare(view, query) ==
    CASE query = BadSyntax -> "near \"SELEC\": syntax error"
      [] query = CreateTable ->
            IF view.exists THEN "table t already exists" ELSE "ok"
      [] query \in {SelectAll, SelectDup, InsertOne, InsertTwo} ->
            IF view.exists THEN "ok" ELSE "no such table: t"
      [] OTHER -> "ok"

NumPlaceholders(query) ==
    CASE query = InsertOne -> 2
      [] query = InsertTwo -> 4
      [] query = SelectParam -> 1
      [] OTHER -> 0

\* The statements before which the sqlite3 module opens a transaction itself.
IsDml(query) == query \in {InsertOne, InsertTwo}

\* sqlite3_stmt_readonly: the statement makes no direct change to the file.
StmtReadonly(query) == query \in {SelectAll, SelectDup, SelectParam, Rollback}

\* cursor.description: the names of the result columns, as the statement
\* gives them.
Description(query) ==
    CASE query = SelectDup -> <<"a", "a">>
      [] query = SelectParam -> <<"v">>
      [] OTHER -> Columns

\* Binding a python int goes through a C long long: the value must lie in
\* -2^63 .. 2^63 - 1, else OverflowError.
OverflowMsg == "Python int too large to convert to SQLite INTEGER"
FitsInt64(v) ==
    \/ v.t = "float"
    \/ v.limbs[1] < 32768
    \/ v.neg /\ v.limbs = <<32768, 0, 0, 0>>

\* sqlite3_bind_int64: the 64-bit two's complement word of the value, as
\* limbs.  Negation is complement and add one, the carry running from the
\* least significant limb up.
RECURSIVE AddOne(_, _)
AddOne(limbs, i) ==
    IF i = 0 THEN limbs
    ELSE IF limbs[i] = LimbBase - 1 THEN AddOne([limbs EXCEPT ![i] = 0], i - 1)
    ELSE [limbs EXCEPT ![i] = @ + 1]

Complement(limbs) == [i \in 1..Len(limbs) |-> LimbBase - 1 - limbs[i]]

Negate(limbs) == AddOne(Complement(limbs), Len(limbs))

bind_int64(v) == IF v.neg THEN Negate(v.limbs) ELSE v.limbs

\* sqlite3_column_int64 and PyLong_FromLongLong: the word read as signed.
column_int64(word) ==
    IF word[1] >= 32768 THEN PyInt(TRUE, Negate(word)) ELSE PyInt(FALSE, word)

\* What SELECT ? gives back for a bound value: an INTEGER for an int, a REAL
\* for a float.
BoundValue(v) == IF v.t = "float" THEN v ELSE column_int64(bind_int64(v))

\* The rows of a statement that reads no table.
ParamRows(params) == << <<BoundValue(params[1])>> >>

\* The rows a parameter list binds to the VALUES clauses, in order.
BoundRows(query, params) ==
    IF query = InsertOne THEN << <<params[1], params[2]>> >>
    ELSE << <<params[1], params[2]>>, <<params[3], params[4]>> >>

\* INSERT OR FAIL: rows go in one by one; the first UNIQUE conflict stops the
\* statement and the rows already inserted stay in the transaction.
RECURSIVE InsertRows(_, _)
InsertRows(table, rows) ==
    IF rows = <<>> THEN [table |-> table, ok |-> TRUE]
    ELSE IF Head(rows)[1] \in XsOf(table.rows)
         THEN [table |-> table, ok |-> FALSE]
         ELSE InsertRows([table EXCEPT !.rows = Append(@, Head(rows))],
                         Tail(rows))

\* A rollback-journal file lets nobody commit while another handle holds its
\* shared lock; a WAL file does.
Locked(e) == e.journal = "delete" /\ e.roTx = "read"

Raised(e, msg) ==
    [e |-> e, ok |-> FALSE, msg |-> msg, hasDescription |-> FALSE,
     description |-> <<>>, rows |-> <<>>]

Cursor(e, hasDescription, description, rows) ==
    [e |-> e, ok |-> TRUE, msg |-> "", hasDescription |-> hasDescription,
     description |-> description, rows |-> rows]

\* con.execute(query, params) on the read-write handle, inside `with con`.
rw_execute(e, query, params) ==
    LET prep == Prepare(IF e.rwTx THEN e.rwWork ELSE e.db, query)
        begun == IF IsDml(query) /\ ~e.rwTx
                 THEN [e EXCEPT !.rwTx = TRUE, !.rwWork = e.db] ELSE e
        ins == InsertRows(begun.rwWork, BoundRows(query, params))
    IN  IF prep # "ok" THEN Raised(e, prep)
        ELSE IF Len(params) # NumPlaceholders(query) THEN Raised(begun, BindMsg)
        ELSE IF query = SelectParam /\ ~FitsInt64(params[1])
             THEN Raised(e, OverflowMsg)
        ELSE IF query = SelectParam
             THEN Cursor(e, TRUE, Description(query), ParamRows(params))
        ELSE IF query = Rollback
             THEN IF ~e.rwTx THEN Raised(e, NoTxMsg)
                  ELSE Cursor([e EXCEPT !.rwTx = FALSE, !.rwWork = NoTable],
                              FALSE, <<>>, <<>>)
        ELSE IF query = CreateTable
             \* DDL outside a transaction commits as the statement ends
             THEN IF e.rwTx THEN Cursor([e EXCEPT !.rwWork = EmptyTable],
                                        FALSE, <<>>, <<>>)
                  ELSE IF Locked(e) THEN Raised(e, LockedMsg)
                  ELSE Cursor([e EXCEPT !.db = EmptyTable], FALSE, <<>>, <<>>)
        ELSE IF IsDml(query)
             THEN IF ins.ok
                  THEN Cursor([begun EXCEPT !.rwWork = ins.table],
                              FALSE, <<>>, <<>>)
                  ELSE Raised([begun EXCEPT !.rwWork = ins.table], UniqueMsg)
        ELSE Cursor(e, TRUE, Description(query),
                    (IF e.rwTx THEN e.rwWork ELSE e.db).rows)

\* Connection.__exit__: commit when the block raised nothing, else roll back;
\* a commit that fails is followed by a rollback and its error is raised.
rollback(e) == [e EXCEPT !.rwTx = FALSE, !.rwWork = NoTable]

\* Mutant of commit: the transaction ends without its changes reaching the file.
commit_lost(e) == [e |-> rollback(e), ok |-> TRUE, msg |-> ""]

commit(e) ==
    IF ~e.rwTx THEN [e |-> e, ok |-> TRUE, msg |-> ""]
    ELSE IF Locked(e) THEN [e |-> rollback(e), ok |-> FALSE, msg |-> LockedMsg]
    ELSE [e |-> [e EXCEPT !.db = e.rwWork, !.rwTx = FALSE, !.rwWork = NoTable],
          ok |-> TRUE, msg |-> ""]

\* Mutant of connection_exit: commits whether or not the block raised.
connection_exit_commits(e, raised) == commit(e)

connection_exit(e, raised) ==
    IF raised THEN [e |-> rollback(e), ok |-> TRUE, msg |-> ""]
    ELSE commit(e)

RoView(e) == IF e.roTx = "read" THEN e.roSnap ELSE e.db

\* Mutant of ro_execute: the connection was opened without ?mode=ro.
ro_execute_writable(e, query, params) == rw_execute(e, query, params)

\* readonly_connection.execute(query, params), fetchall() included.
ro_execute(e, query, params) ==
    LET prep == Prepare(RoView(e), query)
        begun == IF IsDml(query) /\ e.roTx = "none"
                 THEN [e EXCEPT !.roTx = "deferred"] ELSE e
        \* the first read inside a transaction takes the lock / the snapshot
        reading == IF begun.roTx = "deferred"
                   THEN [begun EXCEPT !.roTx = "read", !.roSnap = begun.db]
                   ELSE begun
    IN  IF prep # "ok" THEN Raised(e, prep)
        ELSE IF Len(params) # NumPlaceholders(query) THEN Raised(begun, BindMsg)
        ELSE IF query = SelectParam /\ ~FitsInt64(params[1])
             THEN Raised(e, OverflowMsg)
        ELSE IF ~StmtReadonly(query) THEN Raised(begun, ReadonlyMsg)
        ELSE IF query = Rollback
             THEN IF e.roTx = "none" THEN Raised(e, NoTxMsg)
                  ELSE Cursor([e EXCEPT !.roTx = "none", !.roSnap = NoTable],
                              FALSE, <<>>, <<>>)
        ELSE IF query = SelectParam
             THEN Cursor(reading, TRUE, Description(query), ParamRows(params))
        ELSE Cursor(reading, TRUE, Description(query), RoView(reading).rows)

----------------------------------------------------------------------------
\* Python values the handler builds

\* A dict as its (key, value) pairs in insertion order; d[k] = v.
DictSet(d, k, v) ==
    IF \E i \in 1..Len(d) : d[i][1] = k
    THEN [i \in 1..Len(d) |-> IF d[i][1] = k THEN <<k, v>> ELSE d[i]]
    ELSE Append(d, <<k, v>>)

\* {k: v for k, v in zip(columns, record)}
RECURSIVE DictOfZip(_, _, _)
DictOfZip(d, ks, vs) ==
    IF ks = <<>> \/ vs = <<>> THEN d
    ELSE DictOfZip(DictSet(d, Head(ks), Head(vs)), Tail(ks), Tail(vs))

Records(columns, rows) ==
    [i \in 1..Len(rows) |-> DictOfZip(<<>>, columns, rows[i])]

\* response_body values
None == [t |-> "None"]
Table(columns, records) ==
    [t |-> "dict", columns |-> columns, records |-> records]
List(records) == [t |-> "list", records |-> records]
Bytearray(bytes) == [t |-> "bytearray", bytes |-> bytes]

\* str(KeyError(key))
KeyErrorText(key) == <<"'", key, "'">>

\* Mutant of Enrich: the parameter list is left out of the message.
Enrich_no_params(err, body) ==
    IF "query" \notin DOMAIN body THEN KeyErrorText("query")
    ELSE <<err, "\nQuery: ", body.query>>

\* f"{err}\nQuery: {request_body['query']}\nParams: {request_body['params']}";
\* looking up a key the body lacks raises KeyError in place of the message.
Enrich(err, body) ==
    IF "query" \notin DOMAIN body THEN KeyErrorText("query")
    ELSE IF "params" \notin DOMAIN body THEN KeyErrorText("params")
    ELSE <<err, "\nQuery: ", body.query, "\nParams: ", body.params>>

----------------------------------------------------------------------------
\* Server.handle

\* What the try block leaves behind: the engine and the files, the
\* response_body (ok) or the text of the exception (~ok), the calls made on
\* the handles and on open(), and whether the engine raised.
Done(e, fs, payload, ops) ==
    [e |-> e, files |-> fs, ok |-> TRUE, skip |-> FALSE, payload |-> payload,
     err |-> <<>>, ops |-> ops, engineError |-> FALSE]

Failed(e, fs, err, ops, engineError) ==
    [e |-> e, files |-> fs, ok |-> FALSE, skip |-> FALSE, payload |-> None,
     err |-> err, ops |-> ops, engineError |-> engineError]

Skipped(e, fs) ==
    [e |-> e, files |-> fs, ok |-> FALSE, skip |-> TRUE, payload |-> None,
     err |-> <<>>, ops |-> <<>>, engineError |-> FALSE]

\* Mutant of read_response_vscode: a cursor without description gives an empty
\* result in place of None.
read_response_empty(c, body) ==
    IF c.hasDescription
    THEN Done(c.e, <<>>, Table(c.description, Records(c.description, c.rows)),
              <<"ro.execute">>)
    ELSE Done(c.e, <<>>, Table(<<>>, <<>>), <<"ro.execute">>)

\* src/vscode/server.py: a cursor without description gives None.
read_response_vscode(c, body) ==
    IF c.hasDescription
    THEN Done(c.e, <<>>, Table(c.description, Records(c.description, c.rows)),
              <<"ro.execute">>)
    ELSE Done(c.e, <<>>, None, <<"ro.execute">>)

\* src/backend/vscode: iterating cursor.description raises when it is None.
read_response_backend(c, body) ==
    IF c.hasDescription
    THEN Done(c.e, <<>>, List(Records(c.description, c.rows)), <<"ro.execute">>)
    ELSE Failed(c.e, <<>>, Enrich(NoneNotIterableMsg, body), <<"ro.execute">>,
                FALSE)

\* The handle a /query is executed on.
WriteMode(mode) == mode = "w+"

\* Mutant of query: the write branch builds its response from the cursor as
\* the read branch does.
query_write_returns_rows(v, body, e) ==
    IF "mode" \notin DOMAIN body
    THEN Failed(e, <<>>, Enrich("'mode'", body), <<>>, FALSE)
    ELSE IF WriteMode(body.mode)
    THEN LET x == rw_execute(e, body.query, body.params)
             ex == connection_exit(x.e, ~x.ok)
         IN  IF ~x.ok
             THEN Failed(ex.e, <<>>, Enrich(x.msg, body),
                         <<"rw.execute", "rw.rollback">>, TRUE)
             ELSE IF ~ex.ok
             THEN Failed(ex.e, <<>>, Enrich(ex.msg, body),
                         <<"rw.execute", "rw.commit", "rw.rollback">>, TRUE)
             ELSE IF x.hasDescription
             THEN Done(ex.e, <<>>,
                       Table(x.description, Records(x.description, x.rows)),
                       <<"rw.execute", "rw.commit">>)
             ELSE Done(ex.e, <<>>, None, <<"rw.execute", "rw.commit">>)
    ELSE LET c == ro_execute(e, body.query, body.params)
         IN  IF ~c.ok
             THEN Failed(c.e, <<>>, Enrich(c.msg, body), <<"ro.execute">>, TRUE)
             ELSE IF v = "vscode" THEN read_response_vscode(c, body)
             ELSE read_response_backend(c, body)

query(v, body, e) ==
    IF "mode" \notin DOMAIN body
    THEN Failed(e, <<>>, Enrich("'mode'", body), <<>>, FALSE)
    ELSE IF WriteMode(body.mode)
    THEN LET x == rw_execute(e, body.query, body.params)
             ex == connection_exit(x.e, ~x.ok)
         IN  IF ~x.ok
             THEN Failed(ex.e, <<>>, Enrich(x.msg, body),
                         <<"rw.execute", "rw.rollback">>, TRUE)
             ELSE IF ~ex.ok
             THEN Failed(ex.e, <<>>, Enrich(ex.msg, body),
                         <<"rw.execute", "rw.commit", "rw.rollback">>, TRUE)
             ELSE Done(ex.e, <<>>, None, <<"rw.execute", "rw.commit">>)
    ELSE LET c == ro_execute(e, body.query, body.params)
         IN  IF ~c.ok
             THEN Failed(c.e, <<>>, Enrich(c.msg, body), <<"ro.execute">>, TRUE)
             ELSE IF v = "vscode" THEN read_response_vscode(c, body)
             ELSE read_response_backend(c, body)

\* open(os.path.join(cwd, filepath), ...) succeeds for a file in cwd itself.
NoFile == [exists |-> FALSE, bytes |-> <<>>]
File(bytes) == [exists |-> TRUE, bytes |-> bytes]
DirExists(filepath) == filepath = "out.bin"
NoSuchFileMsg == "[Errno 2] No such file or directory"

import(body, e, fs) ==
    IF "filepath" \notin DOMAIN body
    THEN Failed(e, fs, KeyErrorText("filepath"), <<>>, FALSE)
    ELSE IF ~fs[body.filepath].exists
    THEN Failed(e, fs, <<NoSuchFileMsg, body.filepath>>, <<"open.rb">>, FALSE)
    ELSE Done(e, fs, Bytearray(fs[body.filepath].bytes), <<"open.rb">>)

\* open(..., "wb") creates or truncates the file before data is looked up.
export(body, e, fs) ==
    IF "filepath" \notin DOMAIN body
    THEN Failed(e, fs, KeyErrorText("filepath"), <<>>, FALSE)
    ELSE IF ~DirExists(body.filepath)
    THEN Failed(e, fs, <<NoSuchFileMsg, body.filepath>>, <<"open.wb">>, FALSE)
    ELSE IF "data" \notin DOMAIN body
    THEN Failed(e, [fs EXCEPT ![body.filepath] = File(<<>>)],
                KeyErrorText("data"), <<"open.wb">>, FALSE)
    ELSE Done(e, [fs EXCEPT ![body.filepath] = File(body.data)], None,
              <<"open.wb">>)

\* with open(request_body_filepath, "rb") as f: request_body = unpack(f)
DecodeFails(req) == req.file # "msgpack"
DecodeErrorText(req) ==
    IF req.file = "missing" THEN <<NoSuchFileMsg, "request_body_filepath">>
    ELSE <<"umsgpack.UnpackException">>

\* path.strip()
Strip(path) == IF path = " /query " THEN "/query" ELSE path

\* The path the dispatch compares: stripped, except in python-sqlite-stdio.
DispatchPath(v, rawPath) == IF v = "stdio" THEN rawPath ELSE Strip(rawPath)

\* An unknown path raises, except in python-sqlite-stdio, which logs to stderr
\* and goes on to the next input() with neither response file nor status.
invalid_path(v, path, e, fs) ==
    IF v = "stdio" THEN Skipped(e, fs)
    ELSE Failed(e, fs, <<"Invalid path: ", path>>, <<>>, FALSE)

\* Mutant of try_body: a request file that cannot be decoded is taken for an
\* empty-parameter read of the table, and dispatched.
try_body_dispatches_undecoded(v, rawPath, req, e, fs) ==
    LET path == DispatchPath(v, rawPath)
        body == IF DecodeFails(req) THEN SelectBody ELSE req.body
    IN  IF path = "/query" THEN [query(v, body, e) EXCEPT !.files = fs]
        ELSE IF path = "/import" THEN import(body, e, fs)
        ELSE IF path = "/export" THEN export(body, e, fs)
        ELSE invalid_path(v, path, e, fs)

try_body(v, rawPath, req, e, fs) ==
    LET path == DispatchPath(v, rawPath)
    IN  IF DecodeFails(req) THEN Failed(e, fs, DecodeErrorText(req), <<>>, FALSE)
        ELSE IF path = "/query"
             THEN [query(v, req.body, e) EXCEPT !.files = fs]
        ELSE IF path = "/import" THEN import(req.body, e, fs)
        ELSE IF path = "/export" THEN export(req.body, e, fs)
        ELSE invalid_path(v, path, e, fs)

\* The response body file: pack(response_body, f) or f.write(str(err)).
Packed(cmd, payload) == [cmd |-> cmd, kind |-> "msgpack", value |-> payload, text |-> <<>>]
Text(cmd, err) == [cmd |-> cmd, kind |-> "text", value |-> None, text |-> err]

\* The response file before any response is written, and once the front end
\* has read the response that a status line announced.
NoResponse == [cmd |-> 0, kind |-> "none", value |-> None, text |-> <<>>]

\* handle as a whole: ret is 200, 400, "raise" (the exception left handle) or
\* "continue" (python-sqlite-stdio's unknown path).
handle(v, rawPath, req, writable, e, fs, resp, cmd) ==
    LET t == try_body(v, rawPath, req, e, fs)
        ret == IF t.skip THEN "continue"
               ELSE IF ~writable THEN "raise"
               ELSE IF t.ok THEN "200" ELSE "400"
    IN  [t |-> t, ret |-> ret,
         respFile |-> IF ret = "200" THEN Packed(cmd, t.payload)
                      ELSE IF ret = "400" THEN Text(cmd, t.err)
                      ELSE resp]

----------------------------------------------------------------------------
\* The process: Server(...), then `while True: print(server.handle(input()))`

Variants == {"vscode", "backend", "stdio"}
JournalModes == {"delete", "wal"}
InitDbs == {NoTable, EmptyTable}

Engine ==
    [db |-> db, roTx |-> roTx, roSnap |-> roSnap, rwTx |-> rwTx,
     rwWork |-> rwWork, journal |-> journal]

NoCall ==
    [cmd |-> 0, line |-> "", req |-> Missing, ret |-> "none", ops |-> <<>>,
     engineError |-> FALSE, before |-> NoTable, filesBefore |-> <<>>,
     onlyWritesBefore |-> FALSE]

\* No /export to a path was answered 200 yet.
NoExport == [done |-> FALSE, bytes |-> <<>>]
Exported(bytes) == [done |-> TRUE, bytes |-> bytes]

\* find_widget_regexp has not been called.
NoArgs == [text |-> [t |-> "null"], pattern |-> [t |-> "null"],
           whole_word |-> 0, case_sensitive |-> 0]
Pending == [state |-> "pending", value |-> 0]

\* The HTTP clients; a client with no request outstanding.
Clients == {"c1", "c2"}
IdleClient == [phase |-> "idle", path |-> "", req |-> Missing,
               status |-> "none", payload |-> None, err |-> <<>>, ok |-> FALSE]

InitOf(variants) ==
    /\ variant \in variants
    /\ journal \in JournalModes
    /\ respOK = TRUE
    /\ db \in InitDbs
    /\ roTx = "none"
    /\ roSnap = NoTable
    /\ rwTx = FALSE
    /\ rwWork = NoTable
    /\ files = [p \in Filepaths |-> NoFile]
    /\ respFile = NoResponse
    /\ pc = "input"
    /\ line = ""
    /\ nIn = 0
    /\ nOut = 0
    /\ outFor = 0
    /\ last = NoCall
    /\ onlyWrites = TRUE
    /\ written = <<>>
    /\ closeLog = <<>>
    /\ exported = [p \in Filepaths |-> NoExport]
    /\ mArgs = NoArgs
    /\ mResult = Pending
    /\ hreq = [c \in Clients |-> IdleClient]
    /\ hPosts = 0

\* input() returns the next line.
ReadLine ==
    /\ pc = "input"
    /\ nIn < MaxCmds
    /\ \E l \in Lines : line' = l
    /\ nIn' = nIn + 1
    /\ pc' = "handle"
    /\ UNCHANGED <<variant, journal, respOK, db, roTx, roSnap, rwTx, rwWork,
                   files, respFile, nOut, outFor, last, onlyWrites, written,
                   closeLog, exported, otherVars>>

\* A write-mode /query that handle answered 200.
SuccessfulWrite(v, l, req, ret) ==
    /\ ret = "200"
    /\ DispatchPath(v, l) = "/query"
    /\ req.file = "msgpack"
    /\ "mode" \in DOMAIN req.body
    /\ req.body.mode = "w+"

\* An /export that handle answered 200.
SuccessfulExport(v, l, req, ret) ==
    /\ ret = "200"
    /\ DispatchPath(v, l) = "/export"
    /\ req.file = "msgpack"

\* server.handle(line): the front end has put any request file in place.
Handle ==
    /\ pc = "handle"
    /\ \E req \in RequestsFor(line) :
         \E h \in {handle(variant, line, req, respOK, Engine, files, respFile,
                           nIn)} :
             /\ db' = h.t.e.db
             /\ roTx' = h.t.e.roTx
             /\ roSnap' = h.t.e.roSnap
             /\ rwTx' = h.t.e.rwTx
             /\ rwWork' = h.t.e.rwWork
             /\ files' = h.t.files
             /\ respFile' = h.respFile
             /\ pc' = CASE h.ret = "continue" -> "input"
                        [] h.ret = "raise" -> "crashed"
                        [] OTHER -> "print"
             /\ last' = [cmd |-> nIn, line |-> line, req |-> req,
                         ret |-> h.ret, ops |-> h.t.ops,
                         engineError |-> h.t.engineError, before |-> db,
                         filesBefore |-> files,
                         onlyWritesBefore |-> onlyWrites]
             /\ onlyWrites' = (onlyWrites /\ SuccessfulWrite(variant, line, req, h.ret))
             /\ written' = IF SuccessfulWrite(variant, line, req, h.ret)
                               /\ IsDml(req.body.query)
                            THEN written \o BoundRows(req.body.query,
                                                      req.body.params)
                            ELSE written
             /\ exported' = IF SuccessfulExport(variant, line, req, h.ret)
                             THEN [exported EXCEPT ![req.body.filepath] =
                                     Exported(req.body.data)]
                             ELSE exported
    /\ UNCHANGED <<variant, journal, respOK, line, nIn, nOut, outFor, closeLog,
                   otherVars>>

\* print(status, flush=True); on the status line the front end reads the
\* response body file, before it sends its next command.
PrintStatus ==
    /\ pc = "print"
    /\ nOut' = nOut + 1
    /\ outFor' = last.cmd
    /\ pc' = "input"
    /\ last' = NoCall
    /\ respFile' = NoResponse
    /\ UNCHANGED <<variant, journal, respOK, db, roTx, roSnap, rwTx, rwWork,
                   files, line, nIn, onlyWrites, written, closeLog, exported,
                   otherVars>>

\* The input stream is closed: input() raises EOFError, nothing catches it and
\* the interpreter exits.  No close() exists; the two connection objects are
\* finalized with the interpreter, in an order the program does not fix.
Eof ==
    /\ pc = "input"
    /\ pc' = "terminated"
    /\ closeLog' \in { <<"ro.close", "rw.close">>, <<"rw.close", "ro.close">> }
    /\ last' = NoCall
    /\ UNCHANGED <<variant, journal, respOK, db, roTx, roSnap, rwTx, rwWork,
                   files, respFile, line, nIn, nOut, outFor, onlyWrites,
                   written, exported, otherVars>>

\* The response body file stops being writable (its directory is removed, the
\* disk fills) while the server waits for a command.
RespFileFault ==
    /\ pc = "input"
    /\ respOK
    /\ respOK' = FALSE
    /\ UNCHANGED <<variant, journal, db, roTx, roSnap, rwTx, rwWork, files,
                   respFile, pc, line, nIn, nOut, outFor, last, onlyWrites,
                   written, closeLog, exported, otherVars>>

Next == ReadLine \/ Handle \/ PrintStatus \/ Eof \/ RespFileFault

\* src/vscode/server.py
Init == InitOf({"vscode"})
Spec == Init /\ [][Next]_vars

\* Any of the three line-transport servers.
InitVariants == InitOf(Variants)
SpecVariants == InitVariants /\ [][Next]_vars

----------------------------------------------------------------------------
\* find_widget_regexp, the scalar function registered on both handles.  Text
\* is a sequence of characters; the engine passes text, NULL or a number.

Str(chars) == [t |-> "str", chars |-> chars]
Null == [t |-> "null"]
Number(n) == [t |-> "int", n |-> n]

MatcherTexts ==
    { Str(<<"f", "o", "o", " ", "b", "a", "r">>),
      Str(<<"f", "o", "o", "b", "a", "r">>),
      Str(<<"F", "O", "O", " ", "B", "A", "R">>),
      Str(<<"x", "x">>), Str(<<>>), Null, Number(5) }

MatcherPatterns ==
    { Str(<<"f", "o", "o">>), Str(<<"b", "a", "r">>), Str(<<"b">>),
      Str(<<"F", "O", "O">>), Str(<<"f", ".", "o">>), Str(<<"(">>),
      Str(<<>>), Null }

Flags == {0, 1}

MatcherArgs ==
    [text : MatcherTexts, pattern : MatcherPatterns,
     whole_word : Flags, case_sensitive : Flags]

\* The string literal "\\b(?:{pattern})\\b" of the source, which is no
\* f-string: its characters are these, whatever pattern is.
WholeWordLiteral ==
    <<"\\", "b", "(", "?", ":", "{", "p", "a", "t", "t", "e", "r", "n", "}",
      ")", "\\", "b">>

\* re.compile: of the patterns above, the one with an unmatched parenthesis
\* is no regular expression (re.error).
Compiles(pattern) == \A k \in 1..Len(pattern) : pattern[k] \notin {"(", ")"}

\* str.lower on one character.
Lower(c) ==
    CASE c = "F" -> "f" [] c = "O" -> "o" [] c = "B" -> "b"
      [] c = "A" -> "a" [] c = "R" -> "r" [] OTHER -> c

\* One pattern character against one subject character: "." is any
\* character, re.I compares without case.
CharMatch(p, c, ignorecase) ==
    \/ p = "."
    \/ p = c
    \/ ignorecase /\ Lower(p) = Lower(c)

MatchAt(pattern, subject, i, ignorecase) ==
    /\ i + Len(pattern) - 1 <= Len(subject)
    /\ \A k \in 1..Len(pattern) :
         CharMatch(pattern[k], subject[i + k - 1], ignorecase)

\* re.search(pattern, subject, flags) is not None
re_search(pattern, subject, ignorecase) ==
    \E i \in 1..(Len(subject) + 1) : MatchAt(pattern, subject, i, ignorecase)

Returned(value) == [state |-> "returned", value |-> value]
RaisedTypeError == [state |-> "raised", value |-> 0]

\* The pattern is compiled first (re.error is caught and gives 0); then the
\* subject is searched: the literal when whole_word is set, else text.  A
\* pattern or a subject that is no string raises TypeError, which nothing
\* catches.
find_widget_regexp(text, pattern, whole_word, case_sensitive) ==
    LET subject == IF whole_word # 0 THEN Str(WholeWordLiteral) ELSE text
    IN  IF pattern.t # "str" THEN RaisedTypeError
        ELSE IF ~Compiles(pattern.chars) THEN Returned(0)
        ELSE IF subject.t # "str" THEN RaisedTypeError
        ELSE IF re_search(pattern.chars, subject.chars, case_sensitive = 0)
             THEN Returned(1)
             ELSE Returned(0)

\* The engine evaluates one call of the function for a row.
InitMatcher ==
    /\ variant = "vscode"
    /\ journal = "delete"
    /\ respOK = TRUE
    /\ db = EmptyTable
    /\ roTx = "none"
    /\ roSnap = NoTable
    /\ rwTx = FALSE
    /\ rwWork = NoTable
    /\ files = [p \in Filepaths |-> NoFile]
    /\ respFile = NoResponse
    /\ pc = "matcher"
    /\ line = ""
    /\ nIn = 0
    /\ nOut = 0
    /\ outFor = 0
    /\ last = NoCall
    /\ onlyWrites = TRUE
    /\ written = <<>>
    /\ closeLog = <<>>
    /\ exported = [p \in Filepaths |-> NoExport]
    /\ mArgs \in MatcherArgs
    /\ mResult = Pending
    /\ hreq = [c \in Clients |-> IdleClient]
    /\ hPosts = 0

CallMatcher ==
    /\ pc = "matcher"
    /\ mResult = Pending
    /\ mResult' = find_widget_regexp(mArgs.text, mArgs.pattern,
                                     mArgs.whole_word, mArgs.case_sensitive)
    /\ UNCHANGED <<variant, journal, respOK, db, roTx, roSnap, rwTx, rwWork,
                   files, respFile, pc, line, nIn, nOut, outFor, last,
                   onlyWrites, written, closeLog, exported, mArgs, hreq,
                   hPosts>>

NextMatcher == CallMatcher
SpecMatcher == InitMatcher /\ [][NextMatcher]_vars

----------------------------------------------------------------------------
\* The HTTP transport: src/backend/python-http/server.py.  HTTPServer serves
\* one connection at a time from its listen queue; do_POST decodes the body,
\* runs the command and sends the response.

\* Requests the clients send before they stop.
MaxPosts == 4

InsertBody(mode) ==
    [query |-> InsertOne, params |-> <<10, 20>>, mode |-> mode]
ExportBody == [filepath |-> "out.bin", data |-> <<7>>]

\* The (path, body) pairs a client posts.
HttpPosts ==
    { <<"/query", Decoded(SelectBody)>>, <<"/query", Decoded(CreateBody)>>,
      <<"/query", Decoded(InsertBody("w+"))>>,
      <<"/query", Decoded(InsertBody("r"))>>,
      <<"/query", Decoded(ImportBody)>>, <<"/query", Garbage>>,
      <<"/import", Decoded(ImportBody)>>, <<"/export", Decoded(ExportBody)>>,
      <<"/bogus", Decoded(SelectBody)>> }

\* The try block of do_POST: errors are not enriched, rows come as a bare
\* list, and a path that is none of the three falls through with
\* response_body None.
http_try(path, body, e, fs) ==
    IF path = "/query"
    THEN IF "mode" \notin DOMAIN body
         THEN Failed(e, fs, KeyErrorText("mode"), <<>>, FALSE)
         ELSE IF WriteMode(body.mode)
         THEN LET x == rw_execute(e, body.query, body.params)
                  ex == connection_exit(x.e, ~x.ok)
              IN  IF ~x.ok
                  THEN Failed(ex.e, fs, <<x.msg>>,
                              <<"rw.execute", "rw.rollback">>, TRUE)
                  ELSE IF ~ex.ok
                  THEN Failed(ex.e, fs, <<ex.msg>>,
                              <<"rw.execute", "rw.commit", "rw.rollback">>,
                              TRUE)
                  ELSE Done(ex.e, fs, None, <<"rw.execute", "rw.commit">>)
         ELSE LET c == ro_execute(e, body.query, body.params)
              IN  IF ~c.ok
                  THEN Failed(c.e, fs, <<c.msg>>, <<"ro.execute">>, TRUE)
                  ELSE IF c.hasDescription
                  THEN Done(c.e, fs, List(Records(c.description, c.rows)),
                            <<"ro.execute">>)
                  ELSE Failed(c.e, fs, <<NoneNotIterableMsg>>,
                              <<"ro.execute">>, FALSE)
    ELSE IF path = "/import" THEN import(body, e, fs)
    ELSE IF path = "/export" THEN export(body, e, fs)
    ELSE Done(e, fs, None, <<>>)

\* A handler is running: its request is decoded and not yet answered.
InHandler(phase) == phase \in {"decoded", "dispatched"}

\* Mutant of ServerIdle: every connection gets a thread of its own.
ServerIdle_threaded(h) == TRUE

\* serve_forever handles the next connection only when the handler of the
\* previous one has returned.
ServerIdle(h) == \A c \in Clients : ~InHandler(h[c].phase)

InitHttp ==
    /\ variant = "http"
    /\ journal \in JournalModes
    /\ respOK = TRUE
    /\ db \in InitDbs
    /\ roTx = "none"
    /\ roSnap = NoTable
    /\ rwTx = FALSE
    /\ rwWork = NoTable
    /\ files = [p \in Filepaths |-> NoFile]
    /\ respFile = NoResponse
    /\ pc = "serving"
    /\ line = ""
    /\ nIn = 0
    /\ nOut = 0
    /\ outFor = 0
    /\ last = NoCall
    /\ onlyWrites = TRUE
    /\ written = <<>>
    /\ closeLog = <<>>
    /\ exported = [p \in Filepaths |-> NoExport]
    /\ mArgs = NoArgs
    /\ mResult = Pending
    /\ hreq = [c \in Clients |-> IdleClient]
    /\ hPosts = 0

lineVars == <<variant, journal, respOK, respFile, pc, line, nIn, nOut, outFor,
              last, onlyWrites, written, closeLog, exported, mArgs, mResult>>

engineVars == <<db, roTx, roSnap, rwTx, rwWork, files>>

\* A client connects and sends a POST; the connection waits in the queue.
Post(c) ==
    /\ pc = "serving"
    /\ hreq[c].phase = "idle"
    /\ hPosts < MaxPosts
    /\ \E r \in HttpPosts :
         hreq' = [hreq EXCEPT ![c] = [IdleClient EXCEPT !.phase = "queued",
                                                        !.path = r[1],
                                                        !.req = r[2]]]
    /\ hPosts' = hPosts + 1
    /\ UNCHANGED <<lineVars, engineVars>>

\* The server takes the connection and do_POST runs unpack(self.rfile), which
\* is outside the try: when it raises, the handler ends, the connection is
\* closed and the client gets no response.
Accept(c) ==
    /\ pc = "serving"
    /\ hreq[c].phase = "queued"
    /\ ServerIdle(hreq)
    /\ hreq' = [hreq EXCEPT ![c].phase =
                  IF DecodeFails(hreq[c].req) THEN "dropped" ELSE "decoded"]
    /\ UNCHANGED <<lineVars, engineVars, hPosts>>

\* The try block of do_POST.
Dispatch(c) ==
    /\ pc = "serving"
    /\ hreq[c].phase = "decoded"
    /\ \E t \in {http_try(hreq[c].path, hreq[c].req.body, Engine, files)} :
           /\ db' = t.e.db
           /\ roTx' = t.e.roTx
           /\ roSnap' = t.e.roSnap
           /\ rwTx' = t.e.rwTx
           /\ rwWork' = t.e.rwWork
           /\ files' = t.files
           /\ hreq' = [hreq EXCEPT ![c].phase = "dispatched", ![c].ok = t.ok,
                                   ![c].payload = t.payload, ![c].err = t.err]
    /\ UNCHANGED <<lineVars, hPosts>>

\* send_response(400) with str(err), or send_response(200) with the packed
\* response_body.
Respond(c) ==
    /\ pc = "serving"
    /\ hreq[c].phase = "dispatched"
    /\ hreq' = [hreq EXCEPT ![c].phase = "answered",
                            ![c].status = IF hreq[c].ok THEN "200" ELSE "400"]
    /\ UNCHANGED <<lineVars, engineVars, hPosts>>

\* The client has read its response, or seen its connection closed.
Receive(c) ==
    /\ pc = "serving"
    /\ hreq[c].phase \in {"answered", "dropped"}
    /\ hreq' = [hreq EXCEPT ![c] = IdleClient]
    /\ UNCHANGED <<lineVars, engineVars, hPosts>>

HttpPost == \E c \in Clients : Post(c)
HttpAccept == \E c \in Clients : Accept(c)
HttpDispatch == \E c \in Clients : Dispatch(c)
HttpRespond == \E c \in Clients : Respond(c)
HttpReceive == \E c \in Clients : Receive(c)

NextHttp == HttpPost \/ HttpAccept \/ HttpDispatch \/ HttpRespond \/ HttpReceive
SpecHttp == InitHttp /\ [][NextHttp]_vars

\* Either transport: the line loop of src/vscode/server.py or the HTTP server.
InitTransports == Init \/ InitHttp
NextTransports == Next \/ NextHttp
SpecTransports == InitTransports /\ [][NextTransports]_vars

----------------------------------------------------------------------------
\* Properties of a call of handle, stated on the record `last` that Handle
\* leaves: the command, its request, the status, the calls on the handles and
\* the database as it was before the call.

KnownPaths == {"/query", "/import", "/export"}

Called == last.cmd > 0

\* handle dispatched to the /query branch with a body that names a mode.
IsQueryCall ==
    /\ Called
    /\ last.req.file = "msgpack"
    /\ DispatchPath(variant, last.line) = "/query"
    /\ "mode" \in DOMAIN last.req.body

Body == last.req.body

CalledOn(op) == \E i \in 1..Len(last.ops) : last.ops[i] = op

EngineMsgs ==
    {ReadonlyMsg, LockedMsg, BindMsg, UniqueMsg, NoTxMsg, OverflowMsg,
     "near \"SELEC\": syntax error", "table t already exists",
     "no such table: t"}

\* The statement compiles against the table as it stands, its parameters
\* bind, and running it would change the database.
HasWriteEffects(before, q, params) ==
    /\ q \in {CreateTable, InsertOne, InsertTwo}
    /\ (q = CreateTable) = ~before.exists
    /\ Len(params) = (IF q = InsertOne THEN 2 ELSE IF q = InsertTwo THEN 4 ELSE 0)

\* What a statement that ran to its end leaves in the table.
RowsOf(q, params) ==
    IF q = InsertOne THEN << <<params[1], params[2]>> >>
    ELSE IF q = InsertTwo
    THEN << <<params[1], params[2]>>, <<params[3], params[4]>> >>
    ELSE <<>>

Effect(before, q, params) ==
    IF q = CreateTable THEN [exists |-> TRUE, rows |-> <<>>]
    ELSE [before EXCEPT !.rows = @ \o RowsOf(q, params)]

\* C1: a /query in read mode whose statement would write is answered 400 with
\* the engine's read-only error, and the database is as it was before the
\* call, although the read-write handle on the same file is open throughout.
C1_ReadOnlyEnforcement ==
    (IsQueryCall /\ Body.mode # "w+"
       /\ HasWriteEffects(last.before, Body.query, Body.params))
    => /\ last.ret # "200"
       /\ db = last.before
       /\ CalledOn("ro.execute") /\ ~CalledOn("rw.execute")
       /\ (pc = "print" =>
             /\ last.ret = "400"
             /\ respFile.kind = "text"
             /\ respFile.text[1] = ReadonlyMsg)

C1_Witness ==
    /\ pc = "print"
    /\ IsQueryCall
    /\ Body.mode = "r"
    /\ Body.query = InsertOne
    /\ Body.params = <<10, 20>>
    /\ last.before = [exists |-> TRUE, rows |-> << <<30, 40>> >>]
    /\ db = last.before
    /\ last.ret = "400"
    /\ respFile.text[1] = ReadonlyMsg

\* C2: a /query in write mode runs inside one transaction on the read-write
\* handle: when the engine raises, the call is not answered 200, nothing of
\* the statement is in the database and no transaction stays open; when the
\* call is answered 200 the whole effect of the statement is committed.
C2_WriteAtomicity ==
    (IsQueryCall /\ Body.mode = "w+")
    => /\ ~rwTx
       /\ last.engineError =>
             /\ last.ret # "200"
             /\ db = last.before
       /\ last.ret = "200" =>
             /\ ~last.engineError
             /\ db = Effect(last.before, Body.query, Body.params)

\* The second row of a two-row INSERT OR FAIL collides after the first row
\* went in: the first row is rolled back with the rest.
C2_Witness ==
    /\ pc = "print"
    /\ IsQueryCall
    /\ Body.mode = "w+"
    /\ Body.query = InsertTwo
    /\ Body.params = <<30, 40, 10, 20>>
    /\ last.engineError
    /\ last.ret = "400"
    /\ respFile.text[1] = UniqueMsg
    /\ db.rows = << <<10, 20>> >>

\* C3: on the line transport every command line read is answered by exactly
\* one response body file and one status line, in order: between commands as
\* many status lines were printed as lines were read, and a status line is
\* printed with the response of its own command in the response file.
C3_OneInOneOut ==
    /\ outFor = nOut
    /\ pc \in {"input", "terminated", "crashed"} => nOut = nIn
    /\ pc \in {"handle", "print"} => nIn = nOut + 1
    /\ pc = "print" =>
          /\ last.cmd = nIn
          /\ respFile.cmd = nIn
          /\ respFile.kind = (IF last.ret = "200" THEN "msgpack" ELSE "text")

\* C4: in every line-transport variant a command line whose path is none of
\* the known ones is answered like any failed command: status 400 with an
\* error text in the response file, after which the next line is read.
C4_UnknownPathAnswered ==
    (Called /\ DispatchPath(variant, last.line) \notin KnownPaths
       /\ ~DecodeFails(last.req))
    => /\ last.ret = "400"
       /\ pc = "print"
       /\ respFile.cmd = last.cmd
       /\ respFile.kind = "text"

\* C5: when the request body file cannot be read or decoded, handle stops
\* there: no call reaches a handle or a file, database and files are as
\* before, and the call is answered 400 with the text of the decode error,
\* whatever the command line says.
C5_DecodeShortCircuit ==
    (Called /\ last.req.file \in {"missing", "garbage"})
    => /\ last.ops = <<>>
       /\ db = last.before
       /\ files = last.filesBefore
       /\ last.ret \notin {"200", "continue"}
       /\ (pc = "print" =>
             /\ last.ret = "400"
             /\ respFile.kind = "text"
             /\ respFile.text[1] \in {NoSuchFileMsg, "umsgpack.UnpackException"})

C5_Witness ==
    /\ pc = "print"
    /\ Called
    /\ last.req = Garbage
    /\ last.line = "/query"
    /\ last.ret = "400"
    /\ last.ops = <<>>
    /\ respFile.text = <<"umsgpack.UnpackException">>
    /\ db = [exists |-> TRUE, rows |-> << <<10, 20>> >>]

\* C6: no error of a single command ends the loop, a failure to write the
\* response body file included: the server process never dies on a command.
C6_LoopSurvives == pc # "crashed"

\* C7: when the input stream ends the server shuts down in order: the
\* read-only handle is closed, then the read-write handle is checkpointed and
\* closed.
C7_ShutdownSequence ==
    pc = "terminated" => closeLog = <<"ro.close", "rw.checkpoint", "rw.close">>

\* C8: the mode of a /query is validated: "w+" runs on the read-write handle,
\* "r" on the read-only handle, and any other mode is rejected without
\* touching either handle.
C8_ModeValidated ==
    IsQueryCall
    => /\ Body.mode = "w+" => CalledOn("rw.execute") /\ ~CalledOn("ro.execute")
       /\ Body.mode = "r" => CalledOn("ro.execute") /\ ~CalledOn("rw.execute")
       /\ Body.mode \notin {"w+", "r"} =>
             /\ last.ops = <<>>
             /\ last.ret # "200"

\* C9: when the engine raises on a /query, the answer is 400 and the response
\* text is the engine's message followed by "\nQuery: ", the statement,
\* "\nParams: " and the parameter list of the request.
C9_ErrorEnrichment ==
    (pc = "print" /\ IsQueryCall /\ last.engineError)
    => /\ last.ret = "400"
       /\ respFile.kind = "text"
       /\ Len(respFile.text) = 5
       /\ respFile.text[1] \in EngineMsgs
       /\ respFile.text[2] = "\nQuery: "
       /\ respFile.text[3] = Body.query
       /\ respFile.text[4] = "\nParams: "
       /\ respFile.text[5] = Body.params

C9_Witness ==
    /\ pc = "print"
    /\ IsQueryCall
    /\ Body.mode = "w+"
    /\ last.engineError
    /\ respFile.text =
         <<BindMsg, "\nQuery: ", InsertOne, "\nParams: ", <<10>> >>

\* C10: what write-mode queries committed is what a later read-mode query
\* sees: after a run of write-mode queries that were all answered 200, a
\* read-mode SELECT of the table is answered 200 with the rows those queries
\* inserted, in order, each as a dict keyed by the column names.
C10_WritesVisible ==
    (pc = "print" /\ IsQueryCall /\ Body = SelectBody
       /\ last.onlyWritesBefore /\ last.before.exists)
    => /\ last.ret = "200"
       /\ respFile.kind = "msgpack"
       /\ respFile.value.t = "dict"
       /\ respFile.value.columns = <<"x", "y">>
       /\ respFile.value.records =
            [i \in 1..Len(written) |->
               << <<"x", written[i][1]>>, <<"y", written[i][2]>> >>]

C10_Witness ==
    /\ pc = "print"
    /\ IsQueryCall
    /\ Body = SelectBody
    /\ last.onlyWritesBefore
    /\ nIn = 4
    /\ written = << <<10, 20>>, <<30, 40>> >>
    /\ respFile.value.t = "dict"
    /\ respFile.value.records =
         << << <<"x", 10>>, <<"y", 20>> >>, << <<"x", 30>>, <<"y", 40>> >> >>

\* A read-mode /query that handle answered 200.
ReadAnswered ==
    /\ pc = "print"
    /\ IsQueryCall
    /\ Body.mode # "w+"
    /\ last.ret = "200"

\* What the read-only handle sees once the call is over.
ViewAfter == IF roTx = "read" THEN roSnap ELSE db

\* The number of rows the statement of the call produced.
RowsProduced ==
    IF Body.query \in {SelectAll, SelectDup} THEN Len(ViewAfter.rows) ELSE 1

\* The keys of a dict, in order.
Keys(d) == [i \in 1..Len(d) |-> d[i][1]]

\* C11: a successful read-mode /query with result columns answers with as
\* many records as the statement produced rows, and the keys of every record
\* are the entries of the column list, in the same order and number, also
\* when two result columns carry the same name.
C11_ResponseShape ==
    (ReadAnswered /\ respFile.value.t = "dict")
    => /\ Len(respFile.value.records) = RowsProduced
       /\ \A i \in 1..Len(respFile.value.records) :
            Keys(respFile.value.records[i]) = respFile.value.columns

\* C12 as stated: a schema-definition statement executed in read mode is
\* answered with payload null.
C12_SchemaStatementGivesNull ==
    (pc = "print" /\ IsQueryCall /\ Body.mode # "w+"
       /\ Body.query = CreateTable /\ ~last.before.exists)
    => /\ last.ret = "200"
       /\ respFile.value = [t |-> "None"]

\* C12, amended: a read-mode statement that succeeds without column metadata
\* is answered with payload null; a SELECT is answered with {columns,
\* records}, with records [] when it matches no row; a schema-definition or
\* other writing statement is not answered 200 in read mode at all.
C12_NoResult ==
    ReadAnswered
    => /\ Body.query \notin {CreateTable, InsertOne, InsertTwo}
       /\ Body.query = Rollback => respFile.value = [t |-> "None"]
       /\ Body.query \in {SelectAll, SelectDup, SelectParam} =>
            /\ respFile.value.t = "dict"
            /\ Len(respFile.value.columns) > 0
            /\ RowsProduced = 0 => respFile.value.records = <<>>

C12_Witness ==
    /\ ReadAnswered
    /\ Body.query = Rollback
    /\ respFile.kind = "msgpack"
    /\ respFile.value = [t |-> "None"]

\* C13: the read-mode query SELECT ? AS v with one integer parameter of the
\* signed or of the unsigned 64-bit range is answered 200 with records
\* [{v: p}], the value identical and still an integer.
C13_Int64RoundTrip ==
    (pc = "print" /\ IsQueryCall /\ Body.mode = "r"
       /\ Body.query = SelectParam /\ Body.params[1].t = "int")
    => /\ last.ret = "200"
       /\ respFile.value.t = "dict"
       /\ respFile.value.columns = <<"v">>
       /\ respFile.value.records = << << <<"v", Body.params[1]>> >> >>

\* C18: after a command answered 400 neither handle is inside a transaction
\* or holds a lock.
C18_NoStateLeft ==
    (Called /\ last.ret = "400")
    => /\ roTx = "none"
       /\ ~rwTx
       /\ ~(journal = "delete" /\ roTx = "read")

\* C19: a write-mode /query answered 200 has payload null, also when its
\* statement is a SELECT that produces rows; a payload with rows comes only
\* from a statement executed on the read-only handle.
C19_WriteReturnsNoRows ==
    /\ (pc = "print" /\ IsQueryCall /\ Body.mode = "w+" /\ last.ret = "200")
       => /\ respFile.kind = "msgpack"
          /\ respFile.value = [t |-> "None"]
    /\ (pc = "print" /\ last.ret = "200" /\ respFile.value.t = "dict")
       => /\ IsQueryCall
          /\ CalledOn("ro.execute")
          /\ ~CalledOn("rw.execute")

C19_Witness ==
    /\ pc = "print"
    /\ IsQueryCall
    /\ Body.mode = "w+"
    /\ Body.query = SelectAll
    /\ last.ret = "200"
    /\ db.rows = << <<10, 20>>, <<30, 40>> >>
    /\ respFile.value = [t |-> "None"]

\* handle dispatched to the /import or /export branch with a body that names
\* a file path.
IsFileCall(path) ==
    /\ pc = "print"
    /\ Called
    /\ last.req.file = "msgpack"
    /\ DispatchPath(variant, last.line) = path
    /\ "filepath" \in DOMAIN Body

\* C14: /export of a blob to a path is answered 200 with payload null and
\* leaves exactly the blob in the file; a later /import of that path is
\* answered 200 with the bytes of the most recent /export answered 200 for
\* it, whatever was sent in between; /import of a missing file is answered
\* 400 and creates no file.
C14_ExportImportRoundTrip ==
    /\ (IsFileCall("/export") /\ "data" \in DOMAIN Body
          /\ Body.filepath = "out.bin")
       => /\ last.ret = "200"
          /\ respFile.value = [t |-> "None"]
          /\ files[Body.filepath] = [exists |-> TRUE, bytes |-> Body.data]
    /\ (IsFileCall("/import") /\ exported[Body.filepath].done)
       => /\ last.ret = "200"
          /\ respFile.value =
               [t |-> "bytearray", bytes |-> exported[Body.filepath].bytes]
    /\ (IsFileCall("/import") /\ ~last.filesBefore[Body.filepath].exists)
       => /\ last.ret = "400"
          /\ respFile.text[1] = NoSuchFileMsg
          /\ ~files[Body.filepath].exists

\* A character that \b counts as part of a word.
IsWordChar(c) == c \notin {" ", ".", "(", ")", "\\", "?", ":", "{", "}"}

\* \b at position i of the subject: exactly one of the characters on its two
\* sides is a word character, the ends of the subject counting as none.
WordBoundary(subject, i) ==
    (i - 1 \in 1..Len(subject) /\ IsWordChar(subject[i - 1]))
      # (i \in 1..Len(subject) /\ IsWordChar(subject[i]))

\* The pattern occurs in text; as a whole word when whole_word is set.
Found(text, pattern, whole_word, case_sensitive) ==
    \E i \in 1..(Len(text) + 1) :
      /\ i + Len(pattern) - 1 <= Len(text)
      /\ \A k \in 1..Len(pattern) :
           \/ pattern[k] = "."
           \/ pattern[k] = text[i + k - 1]
           \/ case_sensitive = 0 /\ Lower(pattern[k]) = Lower(text[i + k - 1])
      /\ whole_word # 0 =>
           WordBoundary(text, i) /\ WordBoundary(text, i + Len(pattern))

\* C16: whatever the engine passes, an invalid regular expression, NULL or a
\* number included, the matcher returns 0 or 1 and never raises.
C16_MatcherNeverRaises ==
    mResult # Pending
    => /\ mResult.state = "returned"
       /\ mResult.value \in {0, 1}

\* C17: for a pattern that compiles and a text, the matcher returns 1 exactly
\* when the pattern is found in text: as a whole word when whole_word is set,
\* without regard to case when case_sensitive is unset.
C17_MatcherResult ==
    (mResult # Pending /\ mArgs.pattern.t = "str" /\ mArgs.text.t = "str"
       /\ Compiles(mArgs.pattern.chars))
    => /\ mResult.state = "returned"
       /\ mResult.value =
            (IF Found(mArgs.text.chars, mArgs.pattern.chars,
                      mArgs.whole_word, mArgs.case_sensitive)
             THEN 1 ELSE 0)

\* C15: every POST gets exactly one response: 200 with an encoded body when
\* the command succeeded, 400 with an error text on every failure, a body
\* that cannot be decoded and a path that is none of /query, /import, /export
\* included.
C15_HttpStatus ==
    \A c \in Clients :
      /\ hreq[c].phase # "dropped"
      /\ hreq[c].phase = "answered" =>
           /\ hreq[c].status \in {"200", "400"}
           /\ hreq[c].status = "200" <=>
                (hreq[c].ok /\ hreq[c].path \in KnownPaths)
           /\ hreq[c].status = "400" => hreq[c].err # <<>>

\* C20: at every moment at most one command is between its decode step and
\* its respond step: on the line transport a line is read only when every
\* earlier line has its status, and on the HTTP transport at most one
\* handler is running however many clients have requests waiting.
C20_MutualExclusion ==
    /\ nIn - nOut \in {0, 1}
    /\ nIn - nOut = 1 <=> pc \in {"handle", "print", "crashed"}
    /\ Cardinality({c \in Clients : InHandler(hreq[c].phase)}) <= 1

\* One handler is running while the request of the other client waits.
C20_Witness ==
    /\ hreq["c1"].phase = "dispatched"
    /\ hreq["c1"].path = "/query"
    /\ hreq["c2"].phase = "queued"
    /\ hreq["c2"].path = "/query"

====
